---------------------------- MODULE Spec2Model ----------------------------
(***************************************************************************)
(* A model of SerialTool's BaseSerial (src/base_serial.py), its            *)
(* ThreadEvent flags (src/base_thread.py) and the polling wait_for helper  *)
(* (src/base_decorators.py).                                               *)
(*                                                                         *)
(* Threads: one background reader (_run_reader_loop) and the foreground    *)
(* callers of write / read / check_log / reconnect / close / pause.  Every *)
(* statement that reads or writes shared state is one step, so the steps   *)
(* of the reader and of the callers interleave freely.                     *)
(*                                                                         *)
(* Specifications: Spec has one caller of write, check_log, close and      *)
(* pause beside the reader and the device; LifeSpec has two foreground     *)
(* threads, one that writes and reads and one that pauses, closes and      *)
(* reconnects; the others isolate one component or one scenario.           *)
(*                                                                         *)
(* Time: a wait_for(timeout, interval) polls timeout/interval times; the   *)
(* model counts the polls.  A timed sleep of a caller ends only when the   *)
(* other threads have reached a sleep of their own, because the steps      *)
(* between two sleeps take no time compared with a poll interval.          *)
(*                                                                         *)
(* Bytes and characters are one-character tokens; a byte string or a text  *)
(* is a sequence of them.                                                  *)
(***************************************************************************)
EXTENDS Integers, Sequences, FiniteSets, TLC

\* ------------------------------------------------------------------------
\* Bounds of the model
\* ------------------------------------------------------------------------

\* Number of polls a wait_for performs before it times out (timeout/interval).
MaxPolls == 2

\* Number of operations a foreground caller starts.
MaxCalls == 2

\* Number of chunks the device sends on its own (log lines, prompts).
MaxEmit == 1

\* buffer_size of the port in the concurrent specifications.
SerialBufferSize == 4

\* Largest buffer_size and number of appends in the buffer specification.
MaxCapacity == 10

MaxAppends == 3

\* Largest number of retries given to reconnect.
MaxRetries == 2

\* ------------------------------------------------------------------------
\* Tokens
\* ------------------------------------------------------------------------

None == "None"

NUL == "NUL"

CR == "CR"

LF == "LF"

ESC == "ESC"

HIGH == "x80"

TimeoutError == "TimeoutError"

PortNotOpenError == "PortNotOpenError"

SerialException == "SerialException"

\* ------------------------------------------------------------------------
\* Sequence helpers
\* ------------------------------------------------------------------------

\* s[n:] of Python: s without its first n elements.
Drop(s, n) == IF n >= Len(s) THEN << >> ELSE SubSeq(s, n + 1, Len(s))

\* s[-n:] of Python for n > 0: the last n elements of s.
LastN(s, n) == IF n >= Len(s) THEN s ELSE SubSeq(s, Len(s) - n + 1, Len(s))

\* pat in text (Python substring test).
Contains(text, pat) ==
    \E i \in 1..(Len(text) - Len(pat) + 1) : SubSeq(text, i, i + Len(pat) - 1) = pat

\* re.sub(rb"\x00", b"", raw)
RECURSIVE StripNul(_)
StripNul(raw) ==
    IF raw = << >> THEN << >>
    ELSE IF Head(raw) = NUL THEN StripNul(Tail(raw))
    ELSE <<Head(raw)>> \o StripNul(Tail(raw))

AnsiParam == {"0", "1", ";"}

\* Length of the match of \x1b\[[0-9;]*m at the head of s, 0 when there is none.
\* [0-9;]* is greedy, but "m" is no parameter character, so the match ends at
\* the first character after the parameters, which must be "m".
RECURSIVE AnsiParams(_, _)
AnsiParams(s, i) ==
    IF i > Len(s) THEN 0
    ELSE IF s[i] \in AnsiParam THEN AnsiParams(s, i + 1)
    ELSE IF s[i] = "m" THEN i
    ELSE 0

AnsiMatch(s) ==
    IF Len(s) >= 3 /\ s[1] = ESC /\ s[2] = "[" THEN AnsiParams(s, 3) ELSE 0

\* re.compile(br"\x1b\[[0-9;]*m").sub(b"", strings)
RECURSIVE StripAnsi(_)
StripAnsi(s) ==
    IF s = << >> THEN << >>
    ELSE IF AnsiMatch(s) > 0 THEN StripAnsi(Drop(s, AnsiMatch(s)))
    ELSE <<Head(s)>> \o StripAnsi(Tail(s))

\* bytes.decode("ascii", "ignore"): bytes above 0x7f are dropped.
RECURSIVE Decode(_)
Decode(s) ==
    IF s = << >> THEN << >>
    ELSE IF Head(s) = HIGH THEN Decode(Tail(s))
    ELSE <<Head(s)>> \o Decode(Tail(s))

\* str.replace("\r", "")
RECURSIVE StripCR(_)
StripCR(s) ==
    IF s = << >> THEN << >>
    ELSE IF Head(s) = CR THEN StripCR(Tail(s))
    ELSE <<Head(s)>> \o StripCR(Tail(s))

byte2str(strings) == StripCR(Decode(StripAnsi(strings)))

\* ------------------------------------------------------------------------
\* RollingBuffer: the buffer property setter
\* ------------------------------------------------------------------------

BufferSetter(buf, data, size) ==
    IF Len(buf) + Len(data) >= size
    THEN Drop(buf, Len(data)) \o data
    ELSE buf \o data


\* ------------------------------------------------------------------------
\* ThreadEvent (WaitableFlag)
\* ------------------------------------------------------------------------

\* A ThreadEvent: the Event's flag, _is_data_ready and _data.
\* _data is None when has_data is FALSE.
ThreadEventInit == [flag |-> FALSE, ready |-> FALSE, has_data |-> FALSE, data |-> << >>]

\* ThreadEvent.set(): a no-op on a flag that is set, else resets the payload.
EventSet(e) ==
    IF e.flag THEN e
    ELSE [flag |-> TRUE, ready |-> FALSE, has_data |-> FALSE, data |-> << >>]

\* ThreadEvent.clear()
EventClear(e) == [e EXCEPT !.flag = FALSE, !.ready = TRUE]

\* ThreadEvent.data setter with a payload of the declared type.
EventAddData(e, d) ==
    IF ~e.ready
    THEN [e EXCEPT !.has_data = TRUE,
                   !.data = IF e.has_data THEN e.data \o d ELSE d]
    ELSE e

\* "event.data or b''"
DataOrEmpty(e) == IF e.has_data /\ e.data # << >> THEN e.data ELSE << >>

\* ------------------------------------------------------------------------
\* Prompt and pattern recognition
\* ------------------------------------------------------------------------

\* pre_prompt of the port.
PrePrompt == <<"c">>

\* re.search(rf"(\d+\|{pre}|{pre}):.* [#\$] ", text) finds a match.  The
\* alternative with the digits only lengthens a match to the left; ".*" takes
\* no line feed.
PromptMatch(text) ==
    \E i \in 1..Len(text), j \in 1..Len(text) :
        /\ i + Len(PrePrompt) <= Len(text)
        /\ SubSeq(text, i, i + Len(PrePrompt) - 1) = PrePrompt
        /\ text[i + Len(PrePrompt)] = ":"
        /\ j > i + Len(PrePrompt)
        /\ j + 2 <= Len(text)
        /\ text[j] = " "
        /\ text[j + 1] \in {"#", "$"}
        /\ text[j + 2] = " "
        /\ \A k \in (i + Len(PrePrompt) + 1)..(j - 1) : text[k] # LF

\* A watch that is satisfied only when every pattern is found, as
\* ThreadCheckEvent.check_conditions computes it.
PatternFoundAll(checkset, text) ==
    /\ checkset # {}
    /\ \A p \in checkset : Contains(text, p)

\* The condition of _check_for_patterns: the watch has patterns and
\* re.search("|".join(checks), text) finds one of them (literal patterns).
PatternFound(checkset, text) ==
    /\ checkset # {}
    /\ \E p \in checkset : Contains(text, p)

\* ------------------------------------------------------------------------
\* wait_for (base_decorators) and its call sites
\* ------------------------------------------------------------------------

\* The loop condition of wait_for after n sleeps of one interval.
WaitForContinues(n) == n < MaxPolls

\* A wait_for that raises on every timeout.
WaitForTimeoutAlwaysRaises(error_type) == "raise"

\* What wait_for does once the loop has ended without the predicate holding.
WaitForTimeout(error_type) ==
    IF error_type = "strict" THEN "raise" ELSE "false"

\* error_type each operation passes to ThreadEvent.wait_for.
ErrorTypeOf(op) ==
    IF op \in {"close", "pause", "check_log", "reconnect"} THEN "strict" ELSE None

\* ------------------------------------------------------------------------
\* Inputs
\* ------------------------------------------------------------------------

\* The foreground threads.  "main" makes the calls of the specifications with
\* one caller; "aux" is the second thread of the specification with two.
Threads == {"main", "aux"}

Callers == {"main"}

Cmds == {<<"a">>}

PromptChunk == <<"c", ":", " ", "$", " ">>

XYZ == <<"X", "Y", "Z">>

\* What the device sends on its own: a prompt, log text holding the keyword,
\* and log text holding it in two parts, the second one coloured.
DevChunks == {PromptChunk, XYZ, <<"X", "Y">>, <<ESC, "[", "0", "m", "Z", CR, NUL>>}

CheckSets == {{XYZ}}

\* ------------------------------------------------------------------------
\* State
\* ------------------------------------------------------------------------

VARIABLES
    is_open,        \* Serial.is_open: the channel is open
    rx,             \* bytes the device has sent and the port has not read yet
    echo,           \* the device echoes every command it receives
    emitted,        \* number of chunks the device has sent on its own
    buffer,         \* BaseSerial._buffer
    buffer_size,    \* BaseSerial.buffer_size
    write_event,    \* response flag
    read_event,     \* read flag
    pause_event,    \* pause flag
    exit_event,     \* exit flag
    check_event,    \* PatternWatch flag
    checks,         \* check_event.checks
    prompt_event,   \* prompt flag
    rpc,            \* position of the reader thread
    r_data,         \* reader: data of the read in progress
    r_buf,          \* reader: the value of _buffer the setter has read
    fg,             \* per caller: the operation in progress and its position
    hit,            \* history: a chunk holding a watched pattern was appended
                    \* while check_log was waiting, before its deadline
    all,            \* history: concatenation of every text appended
    appends         \* history: number of appends (buffer and flag specifications)

vars == <<is_open, rx, echo, emitted, buffer, buffer_size, write_event,
          read_event, pause_event, exit_event, check_event, checks,
          prompt_event, rpc, r_data, r_buf, fg, hit, all, appends>>

events == <<write_event, read_event, pause_event, exit_event, check_event,
            checks, prompt_event>>

reader == <<rpc, r_data, r_buf>>

device == <<is_open, rx, echo, emitted>>

history == <<hit, all, appends>>

\* A caller: the operation and its arguments, the position in it, the polls
\* of its wait_for and the outcome of that wait, what the operation returned
\* (ret) or raised (exc), and the history of the call: the flags it has armed,
\* whether every byte sent before was read and processed when it armed the
\* response flag (clean), whether it has dispatched its command, and the
\* numbers of calls and of close() calls the caller has made.  A call of
\* ThreadEvent.wait_for keeps its target_state and error_type, and what it
\* handed to its caller (val).  A call of reconnect keeps its retries, the
\* number of attempts to open it has made (tries), whether one succeeded
\* (opened) and whether the pause flag was set when it was called (paused).
Idle == [pc |-> "idle", op |-> "none", cmd |-> << >>, called |-> FALSE,
         prompt |-> FALSE, n |-> 0, wres |-> "none", ret |-> << >>,
         exc |-> "none", armed |-> {}, clean |-> FALSE, sent |-> FALSE,
         calls |-> 0, closes |-> 0, target |-> "none", error_type |-> None,
         val |-> "none", retries |-> 0, tries |-> 0, opened |-> FALSE,
         paused |-> FALSE]

\* BaseSerial.__init__ on a port that opens.
InitPort ==
    /\ is_open = TRUE
    /\ rx = << >>
    /\ emitted = 0
    /\ buffer = << >>
    /\ write_event = ThreadEventInit
    /\ read_event = ThreadEventInit
    /\ pause_event = ThreadEventInit
    /\ exit_event = ThreadEventInit
    /\ check_event = ThreadEventInit
    /\ checks = {}
    /\ prompt_event = ThreadEventInit
    /\ rpc = "none"
    /\ r_data = << >>
    /\ r_buf = << >>
    /\ fg = [t \in Threads |-> Idle]
    /\ hit = FALSE
    /\ all = << >>
    /\ appends = 0

\* The port, connected to a device that echoes the commands and sends nothing
\* else, or to one that sends chunks on its own and echoes nothing.
Init ==
    /\ InitPort
    /\ echo \in BOOLEAN
    /\ buffer_size = SerialBufferSize

\* ------------------------------------------------------------------------
\* The device
\* ------------------------------------------------------------------------

\* The device sends a chunk on its own; it waits in the port's input queue.
DeviceEmit(chunk) ==
    /\ ~echo
    /\ emitted < MaxEmit
    /\ emitted' = emitted + 1
    /\ rx' = rx \o chunk
    /\ UNCHANGED <<is_open, echo, buffer, buffer_size, events, reader, fg, history>>

\* ------------------------------------------------------------------------
\* The reader thread: reader_output, _run_reader_loop, _read_generator, read
\* ------------------------------------------------------------------------

ReaderAlive == rpc \notin {"none", "done", "dead"}

\* The reader is stopped or in one of its sleeps.
ReaderAtRest == rpc \in {"none", "done", "dead", "loop_sleep", "ready_sleep"}

\* reader_output(): starts the reader thread unless one is alive.
ReaderOutput ==
    /\ ~ReaderAlive
    /\ rpc' = "loop"
    /\ UNCHANGED <<device, buffer, buffer_size, events, r_data, r_buf, fg, history>>

\* _read_generator: "while not self.exit_event.is_set()"
ReaderLoopTest ==
    /\ rpc = "loop"
    /\ rpc' = IF exit_event.flag THEN "done" ELSE "pause_test"
    /\ UNCHANGED <<device, buffer, buffer_size, events, r_data, r_buf, fg, history>>

\* _read_generator: "if not self.pause_event.is_set()"
ReaderPauseTest ==
    /\ rpc = "pause_test"
    /\ rpc' = IF pause_event.flag THEN "loop_sleep" ELSE "read_set"
    /\ UNCHANGED <<device, buffer, buffer_size, events, r_data, r_buf, fg, history>>

\* read: "self.read_event.set()"
ReadArm ==
    /\ rpc = "read_set"
    /\ read_event' = EventSet(read_event)
    /\ rpc' = "ready_test"
    /\ UNCHANGED <<device, buffer, buffer_size, write_event, pause_event, exit_event,
                   check_event, checks, prompt_event, r_data, r_buf, fg, history>>

\* A _wait_until_ready that waits while the port is paused only.
WaitUntilReadyPausedOnly == pause_event.flag

\* _wait_until_ready: the test of the while loop.
WaitUntilReadyBlocked == pause_event.flag \/ exit_event.flag

ReadReadyTest ==
    /\ rpc = "ready_test"
    /\ rpc' = IF WaitUntilReadyBlocked THEN "ready_sleep" ELSE "raw_read"
    /\ UNCHANGED <<device, buffer, buffer_size, events, r_data, r_buf, fg, history>>

\* _wait_until_ready: "self.sleep(0.1)"
ReadReadySleep ==
    /\ rpc = "ready_sleep"
    /\ rpc' = "ready_test"
    /\ UNCHANGED <<device, buffer, buffer_size, events, r_data, r_buf, fg, history>>

\* A read whose clearing of the read flag is its last statement, not a
\* finally clause: an exception leaves the flag as it is.
ReadExitNoFinally(e, raised) == IF raised THEN e ELSE EventClear(e)

\* read: "finally: self.read_event.clear()", on a return and on an exception.
ReadExit(e, raised) == EventClear(e)

\* read: "data = self._raw_read(size or self.in_waiting)".  On an open
\* channel everything that waits is read, and NUL bytes are removed.  On a
\* closed channel in_waiting raises: the finally clause of read clears the
\* read flag and the exception ends the thread (_run_reader_loop catches
\* SystemExit and KeyboardInterrupt only).
ReadRaw ==
    /\ rpc = "raw_read"
    /\ IF is_open
       THEN /\ r_data' = StripNul(rx)
            /\ rx' = << >>
            /\ rpc' = "proc_response"
            /\ UNCHANGED read_event
       ELSE /\ read_event' = ReadExit(read_event, TRUE)
            /\ rpc' = "dead"
            /\ UNCHANGED <<r_data, rx>>
    /\ UNCHANGED <<is_open, echo, emitted, buffer, buffer_size, write_event,
                   pause_event, exit_event, check_event, checks, prompt_event,
                   r_buf, fg, history>>

\* _process_received_data: "if self.write_event.is_set(): self.write_event.data = data"
ProcessResponse ==
    /\ rpc = "proc_response"
    /\ write_event' = IF write_event.flag THEN EventAddData(write_event, r_data)
                      ELSE write_event
    /\ rpc' = "buffer_get"
    /\ UNCHANGED <<device, buffer, buffer_size, read_event, pause_event, exit_event,
                   check_event, checks, prompt_event, r_data, r_buf, fg, history>>

\* buffer setter, first half: the value of self._buffer it computes from.
BufferGet ==
    /\ rpc = "buffer_get"
    /\ r_buf' = buffer
    /\ rpc' = "buffer_put"
    /\ UNCHANGED <<device, buffer, buffer_size, events, r_data, fg, history>>

\* check_log with these patterns is waiting and its deadline has not passed.
CheckLogWaiting(t) ==
    /\ fg[t].op = "check_log"
    /\ \/ fg[t].pc \in {"wf_pred", "wf_sleep"}
       \/ fg[t].pc = "wf_cond" /\ WaitForContinues(fg[t].n)

\* buffer setter, second half: the assignment to self._buffer.
BufferPut ==
    /\ rpc = "buffer_put"
    /\ buffer' = BufferSetter(r_buf, byte2str(r_data), buffer_size)
    /\ rpc' = "proc_prompt"
    /\ hit' = (hit \/ \E t \in Callers :
                        CheckLogWaiting(t) /\ PatternFound(checks, byte2str(r_data)))
    /\ UNCHANGED <<device, buffer_size, events, r_data, r_buf, fg, all, appends>>

\* _process_received_data: "if self.prompt_event.is_set(): self._check_for_prompt(text)"
ProcessPrompt ==
    /\ rpc = "proc_prompt"
    /\ prompt_event' = IF prompt_event.flag /\ PromptMatch(byte2str(r_data))
                       THEN EventClear(prompt_event) ELSE prompt_event
    /\ rpc' = "proc_check"
    /\ UNCHANGED <<device, buffer, buffer_size, write_event, read_event, pause_event,
                   exit_event, check_event, checks, r_data, r_buf, fg, history>>

\* _process_received_data: "if self.check_event.is_set():
\* self._check_for_patterns(self.buffer)"
ProcessCheck ==
    /\ rpc = "proc_check"
    /\ check_event' = IF check_event.flag /\ PatternFound(checks, buffer)
                      THEN EventClear(check_event) ELSE check_event
    /\ rpc' = "read_finally"
    /\ UNCHANGED <<device, buffer, buffer_size, write_event, read_event, pause_event,
                   exit_event, checks, prompt_event, r_data, r_buf, fg, history>>

\* read: "finally: self.read_event.clear()", then the loop's sleep(0.2).
ReadFinally ==
    /\ rpc = "read_finally"
    /\ read_event' = ReadExit(read_event, FALSE)
    /\ rpc' = "loop_sleep"
    /\ r_data' = << >>
    /\ r_buf' = << >>
    /\ UNCHANGED <<device, buffer, buffer_size, write_event, pause_event, exit_event,
                   check_event, checks, prompt_event, fg, history>>

\* _read_generator: "self.sleep(0.2)" ends.
ReaderLoopSleep ==
    /\ rpc = "loop_sleep"
    /\ rpc' = "loop"
    /\ UNCHANGED <<device, buffer, buffer_size, events, r_data, r_buf, fg, history>>

ReaderNext ==
    \/ ReaderLoopTest
    \/ ReaderPauseTest
    \/ ReadArm
    \/ ReadReadyTest
    \/ ReadReadySleep
    \/ ReadRaw
    \/ ProcessResponse
    \/ BufferGet
    \/ BufferPut
    \/ ProcessPrompt
    \/ ProcessCheck
    \/ ReadFinally
    \/ ReaderLoopSleep

\* Every byte the device has sent was read, and the reader has passed the
\* statement that adds the bytes it read to the response payload.
Drained == rx = << >> /\ rpc # "proc_response"

\* ------------------------------------------------------------------------
\* Foreground callers
\* ------------------------------------------------------------------------

\* Caller t is between two calls or in one of its sleeps.
CallerAtRest(t) ==
    fg[t].pc \in {"idle", "done", "wf_sleep", "w_sleep", "w_ready_sleep", "rc_sleep",
                  "r_ready_sleep"}

\* Every thread but caller t has reached a sleep.
OthersAtRest(t) ==
    /\ ReaderAtRest
    /\ \A u \in Threads \ {t} : CallerAtRest(u)

CanCall(t) == fg[t].pc \in {"idle", "done"} /\ fg[t].calls < MaxCalls

Call(t, op, pc) ==
    [Idle EXCEPT !.pc = pc, !.op = op, !.calls = fg[t].calls + 1,
                 !.closes = fg[t].closes + (IF op = "close" THEN 1 ELSE 0)]

Goto(t, pc) == fg' = [fg EXCEPT ![t].pc = pc]

Return(t, ret) == fg' = [fg EXCEPT ![t].pc = "done", ![t].ret = ret]

Raise(t, exc) == fg' = [fg EXCEPT ![t].pc = "done", ![t].exc = exc]

\* ---- write ---------------------------------------------------------------

\* A write that dispatches the command first and arms the flags afterwards.
WriteNextPcSendFirst(pc, called, prompt) ==
    CASE pc = "w_ready_test" -> "w_send"
      [] pc = "w_send" -> "w_arm_prompt"
      [] pc = "w_arm_prompt" -> "w_arm_response"
      [] pc = "w_arm_response" -> IF prompt THEN "wf_cond"
                                  ELSE IF called THEN "w_sleep" ELSE "w_return"
      [] OTHER -> "w_return"

\* The order of the statements of write after _wait_until_ready has returned.
WriteNextPc(pc, called, prompt) ==
    CASE pc = "w_ready_test" -> "w_arm_prompt"
      [] pc = "w_arm_prompt" -> "w_arm_response"
      [] pc = "w_arm_response" -> "w_send"
      [] pc = "w_send" -> IF prompt THEN "wf_cond"
                          ELSE IF called THEN "w_sleep" ELSE "w_return"
      [] OTHER -> "w_return"

\* write(cmd, flag, called, timeout, prompt): the command is encoded and,
\* unless flag, ended with a line feed.
Write(t, cmd, flag, called, prompt) ==
    /\ CanCall(t)
    /\ fg' = [fg EXCEPT ![t] =
                [Call(t, "write", "w_ready_test") EXCEPT
                    !.cmd = IF flag THEN cmd ELSE cmd \o <<LF>>,
                    !.called = called, !.prompt = prompt]]
    /\ UNCHANGED <<device, buffer, buffer_size, events, reader, history>>

\* write: _wait_until_ready, the test of the while loop.
WriteReadyTest(t) ==
    /\ fg[t].pc = "w_ready_test"
    /\ Goto(t, IF WaitUntilReadyBlocked THEN "w_ready_sleep"
               ELSE WriteNextPc("w_ready_test", fg[t].called, fg[t].prompt))
    /\ UNCHANGED <<device, buffer, buffer_size, events, reader, history>>

\* write: _wait_until_ready, "self.sleep(0.1)"
WriteReadySleep(t) ==
    /\ fg[t].pc = "w_ready_sleep"
    /\ Goto(t, "w_ready_test")
    /\ UNCHANGED <<device, buffer, buffer_size, events, reader, history>>

\* write: "if prompt: self.prompt_event.set()"
WriteArmPrompt(t) ==
    /\ fg[t].pc = "w_arm_prompt"
    /\ prompt_event' = IF fg[t].prompt THEN EventSet(prompt_event) ELSE prompt_event
    /\ fg' = [fg EXCEPT
                ![t].pc = WriteNextPc("w_arm_prompt", fg[t].called, fg[t].prompt),
                ![t].armed = IF fg[t].prompt THEN @ \cup {"prompt"} ELSE @]
    /\ UNCHANGED <<device, buffer, buffer_size, write_event, read_event, pause_event,
                   exit_event, check_event, checks, reader, history>>

\* write: "if called: self.write_event.set()"
WriteArmResponse(t) ==
    /\ fg[t].pc = "w_arm_response"
    /\ write_event' = IF fg[t].called THEN EventSet(write_event) ELSE write_event
    /\ fg' = [fg EXCEPT
                ![t].pc = WriteNextPc("w_arm_response", fg[t].called, fg[t].prompt),
                ![t].armed = IF fg[t].called THEN @ \cup {"response"} ELSE @,
                ![t].clean = Drained]
    /\ UNCHANGED <<device, buffer, buffer_size, read_event, pause_event, exit_event,
                   check_event, checks, prompt_event, reader, history>>

\* write: "super().write(cmd)".  On an open channel the bytes go to the
\* device, and an echoing device sends them back; on a closed channel the
\* statement raises.
WriteSend(t) ==
    /\ fg[t].pc = "w_send"
    /\ IF is_open
       THEN /\ rx' = IF echo THEN rx \o fg[t].cmd ELSE rx
            /\ fg' = [fg EXCEPT
                        ![t].pc = WriteNextPc("w_send", fg[t].called, fg[t].prompt),
                        ![t].sent = TRUE]
       ELSE /\ Raise(t, PortNotOpenError)
            /\ UNCHANGED rx
    /\ UNCHANGED <<is_open, echo, emitted, buffer, buffer_size, events, reader, history>>

\* write: "self.sleep(timeout)" ends.
WriteSleep(t) ==
    /\ fg[t].pc = "w_sleep"
    /\ OthersAtRest(t)
    /\ Goto(t, WriteNextPc("w_sleep", fg[t].called, fg[t].prompt))
    /\ UNCHANGED <<device, buffer, buffer_size, events, reader, history>>

\* write: "return self.write_event.data or b''", or "return b''"; an
\* exception of the prompt wait goes on to the caller instead.
WriteReturn(t) ==
    /\ fg[t].pc = "w_return"
    /\ IF fg[t].wres = "raise"
       THEN Raise(t, TimeoutError)
       ELSE Return(t, IF fg[t].called THEN DataOrEmpty(write_event) ELSE << >>)
    /\ UNCHANGED <<device, buffer, buffer_size, events, reader, history>>

\* ---- wait_for ------------------------------------------------------------

\* The predicate each operation waits for.
WaitPredicate(op) ==
    CASE op = "write" -> ~prompt_event.flag
      [] op = "check_log" -> ~check_event.flag
      [] OTHER -> ~read_event.flag

\* A close without its try/finally: like pause, it closes the channel only
\* when the wait has not raised.
AfterWaitCloseWithoutFinally(op, outcome) ==
    CASE op = "write" -> "w_return"
      [] op = "check_log" -> IF outcome = "raise" THEN "c_except" ELSE "c_finally"
      [] op = "close" -> IF outcome = "raise" THEN "p_raise" ELSE "cl_finally"
      [] op = "reconnect" -> IF outcome = "raise" THEN "p_raise" ELSE "rc_finally"
      [] OTHER -> IF outcome = "raise" THEN "p_raise" ELSE "p_close"

\* Where each operation goes on after its wait_for has ended with outcome
\* "true", "false" or "raise".
AfterWait(op, outcome) ==
    CASE op = "write" -> "w_return"
      [] op = "check_log" -> IF outcome = "raise" THEN "c_except" ELSE "c_finally"
      [] op = "close" -> "cl_finally"
      [] op = "reconnect" -> "rc_finally"
      [] OTHER -> IF outcome = "raise" THEN "p_raise" ELSE "p_close"

\* wait_for: "while (datetime.now() - cur).total_seconds() <= timeout"
WaitCond(t) ==
    /\ fg[t].pc = "wf_cond"
    /\ LET outcome == WaitForTimeout(ErrorTypeOf(fg[t].op)) IN
       fg' = IF WaitForContinues(fg[t].n)
             THEN [fg EXCEPT ![t].pc = "wf_pred"]
             ELSE [fg EXCEPT ![t].pc = AfterWait(fg[t].op, outcome),
                             ![t].wres = outcome]
    /\ UNCHANGED <<device, buffer, buffer_size, events, reader, history>>

\* wait_for: "if predicate(**kwargs): return True"
WaitPred(t) ==
    /\ fg[t].pc = "wf_pred"
    /\ fg' = IF WaitPredicate(fg[t].op)
             THEN [fg EXCEPT ![t].pc = AfterWait(fg[t].op, "true"),
                             ![t].wres = "true"]
             ELSE [fg EXCEPT ![t].pc = "wf_sleep"]
    /\ UNCHANGED <<device, buffer, buffer_size, events, reader, history>>

\* wait_for: "time.sleep(interval)" ends.
WaitSleep(t) ==
    /\ fg[t].pc = "wf_sleep"
    /\ OthersAtRest(t)
    /\ fg' = [fg EXCEPT ![t].pc = "wf_cond", ![t].n = @ + 1]
    /\ UNCHANGED <<device, buffer, buffer_size, events, reader, history>>

\* ---- check_log -----------------------------------------------------------

\* check_log(timeout, *args): "self.check_event.checks = args;
\* self.check_event.set()"
CheckLog(t, args) ==
    /\ CanCall(t)
    /\ checks' = args
    /\ check_event' = EventSet(check_event)
    /\ fg' = [fg EXCEPT ![t] = Call(t, "check_log", "wf_cond")]
    /\ hit' = FALSE
    /\ UNCHANGED <<device, buffer, buffer_size, write_event, read_event, pause_event,
                   exit_event, prompt_event, reader, all, appends>>

\* _wait_check_clear: "except TimeoutError: self.check_event.clear()"
CheckLogExcept(t) ==
    /\ fg[t].pc = "c_except"
    /\ check_event' = EventClear(check_event)
    /\ Goto(t, "c_finally")
    /\ UNCHANGED <<device, buffer, buffer_size, write_event, read_event, pause_event,
                   exit_event, checks, prompt_event, reader, history>>

\* _wait_check_clear: "finally: self._buffer = ''", then the return.
CheckLogFinally(t) ==
    /\ fg[t].pc = "c_finally"
    /\ buffer' = << >>
    /\ Return(t, fg[t].wres = "true")
    /\ UNCHANGED <<device, buffer_size, events, reader, history>>

\* ---- close, pause --------------------------------------------------------

\* close(timeout): "self.exit_event.set()", then the strict wait.
Close(t) ==
    /\ CanCall(t)
    /\ exit_event' = EventSet(exit_event)
    /\ fg' = [fg EXCEPT ![t] = Call(t, "close", "wf_cond")]
    /\ UNCHANGED <<device, buffer, buffer_size, write_event, read_event, pause_event,
                   check_event, checks, prompt_event, reader, history>>

\* close: "finally: super().close()"; the TimeoutError of the wait, if any,
\* goes on to the caller.
CloseFinally(t) ==
    /\ fg[t].pc = "cl_finally"
    /\ is_open' = FALSE
    /\ fg' = [fg EXCEPT ![t].pc = "done",
                        ![t].exc = IF fg[t].wres = "raise" THEN TimeoutError ELSE "none"]
    /\ UNCHANGED <<rx, echo, emitted, buffer, buffer_size, events, reader, history>>

\* pause(timeout): "self.pause_event.set()", then the strict wait.
Pause(t) ==
    /\ CanCall(t)
    /\ pause_event' = EventSet(pause_event)
    /\ fg' = [fg EXCEPT ![t] = Call(t, "pause", "wf_cond")]
    /\ UNCHANGED <<device, buffer, buffer_size, write_event, read_event, exit_event,
                   check_event, checks, prompt_event, reader, history>>

\* pause: "super().close()"
PauseClose(t) ==
    /\ fg[t].pc = "p_close"
    /\ is_open' = FALSE
    /\ Goto(t, "done")
    /\ UNCHANGED <<rx, echo, emitted, buffer, buffer_size, events, reader, history>>

\* pause: the TimeoutError of the wait goes on to the caller.
PauseRaise(t) ==
    /\ fg[t].pc = "p_raise"
    /\ Raise(t, TimeoutError)
    /\ UNCHANGED <<device, buffer, buffer_size, events, reader, history>>

\* ---- read in the foreground ----------------------------------------------

\* read(size, timeout) called by a foreground thread.
Read(t) ==
    /\ CanCall(t)
    /\ fg' = [fg EXCEPT ![t] = Call(t, "read", "r_arm")]
    /\ UNCHANGED <<device, buffer, buffer_size, events, reader, history>>

\* read: "self.read_event.set()"
FgReadArm(t) ==
    /\ fg[t].pc = "r_arm"
    /\ read_event' = EventSet(read_event)
    /\ Goto(t, "r_ready_test")
    /\ UNCHANGED <<device, buffer, buffer_size, write_event, pause_event, exit_event,
                   check_event, checks, prompt_event, reader, history>>

\* read: _wait_until_ready, the test of the while loop.
FgReadReadyTest(t) ==
    /\ fg[t].pc = "r_ready_test"
    /\ Goto(t, IF WaitUntilReadyBlocked THEN "r_ready_sleep" ELSE "r_raw")
    /\ UNCHANGED <<device, buffer, buffer_size, events, reader, history>>

\* read: _wait_until_ready, "self.sleep(0.1)"
FgReadReadySleep(t) ==
    /\ fg[t].pc = "r_ready_sleep"
    /\ Goto(t, "r_ready_test")
    /\ UNCHANGED <<device, buffer, buffer_size, events, reader, history>>

\* read: "data = self._raw_read(size or self.in_waiting)"; on a closed
\* channel the statement raises and the finally clause is next.
FgReadRaw(t) ==
    /\ fg[t].pc = "r_raw"
    /\ IF is_open
       THEN /\ rx' = << >>
            /\ fg' = [fg EXCEPT ![t].pc = "r_process", ![t].ret = StripNul(rx)]
       ELSE /\ UNCHANGED rx
            /\ fg' = [fg EXCEPT ![t].pc = "r_finally", ![t].exc = PortNotOpenError]
    /\ UNCHANGED <<is_open, echo, emitted, buffer, buffer_size, events, reader, history>>

\* read: "self._process_received_data(data)", the statements of the receive
\* pipeline in their order, taken as one step of the foreground thread.
FgReadProcess(t) ==
    /\ fg[t].pc = "r_process"
    /\ LET data == fg[t].ret
           text == byte2str(data)
           buf == BufferSetter(buffer, text, buffer_size)
       IN /\ write_event' = IF write_event.flag THEN EventAddData(write_event, data)
                             ELSE write_event
          /\ buffer' = buf
          /\ prompt_event' = IF prompt_event.flag /\ PromptMatch(text)
                              THEN EventClear(prompt_event) ELSE prompt_event
          /\ check_event' = IF check_event.flag /\ PatternFound(checks, buf)
                             THEN EventClear(check_event) ELSE check_event
    /\ Goto(t, "r_finally")
    /\ UNCHANGED <<device, buffer_size, read_event, pause_event, exit_event, checks,
                   reader, history>>

\* read: "finally: self.read_event.clear()", then "return data" or the
\* exception of the raw read.
FgReadFinally(t) ==
    /\ fg[t].pc = "r_finally"
    /\ read_event' = ReadExit(read_event, fg[t].exc # "none")
    /\ Goto(t, "done")
    /\ UNCHANGED <<device, buffer, buffer_size, write_event, pause_event, exit_event,
                   check_event, checks, prompt_event, reader, history>>

FgReadNext(t) ==
    \/ FgReadArm(t)
    \/ FgReadReadyTest(t)
    \/ FgReadReadySleep(t)
    \/ FgReadRaw(t)
    \/ FgReadProcess(t)
    \/ FgReadFinally(t)

\* ---- reconnect -----------------------------------------------------------

\* reconnect(retries, delay)
Reconnect(t, retries) ==
    /\ CanCall(t)
    /\ fg' = [fg EXCEPT ![t] =
                [Call(t, "reconnect", "rc_loop") EXCEPT
                    !.retries = retries, !.paused = pause_event.flag]]
    /\ UNCHANGED <<device, buffer, buffer_size, events, reader, history>>

\* reconnect: "for _ in range(retries)"; after the loop, "self.close()" begins
\* with "self.exit_event.set()" and goes on to the strict wait.
ReconnectLoop(t) ==
    /\ fg[t].pc = "rc_loop"
    /\ IF fg[t].tries < fg[t].retries
       THEN /\ Goto(t, "rc_open")
            /\ UNCHANGED exit_event
       ELSE /\ exit_event' = EventSet(exit_event)
            /\ Goto(t, "wf_cond")
    /\ UNCHANGED <<device, buffer, buffer_size, write_event, read_event, pause_event,
                   check_event, checks, prompt_event, reader, history>>

\* reconnect: "super().open()".  Serial.open raises SerialException on a port
\* that is open; on a closed port it succeeds or raises SerialException
\* (the device is absent or busy).
ReconnectOpen(t, ok) ==
    /\ fg[t].pc = "rc_open"
    /\ IF ok /\ ~is_open
       THEN /\ is_open' = TRUE
            /\ fg' = [fg EXCEPT ![t].pc = "rc_clear", ![t].tries = @ + 1,
                                ![t].opened = TRUE]
       ELSE /\ UNCHANGED is_open
            /\ fg' = [fg EXCEPT ![t].pc = "rc_sleep", ![t].tries = @ + 1]
    /\ UNCHANGED <<rx, echo, emitted, buffer, buffer_size, events, reader, history>>

\* reconnect: "self.pause_event.clear(); return"
ReconnectClear(t) ==
    /\ fg[t].pc = "rc_clear"
    /\ pause_event' = EventClear(pause_event)
    /\ Goto(t, "done")
    /\ UNCHANGED <<device, buffer, buffer_size, write_event, read_event, exit_event,
                   check_event, checks, prompt_event, reader, history>>

\* reconnect: "except SerialException: self.sleep(delay)" ends.
ReconnectSleep(t) ==
    /\ fg[t].pc = "rc_sleep"
    /\ OthersAtRest(t)
    /\ Goto(t, "rc_loop")
    /\ UNCHANGED <<device, buffer, buffer_size, events, reader, history>>

\* reconnect: the "finally: super().close()" of its close(); the TimeoutError
\* of the wait, if any, goes on to the caller, else
\* "raise SerialException('Reconnect failed')".
ReconnectFinally(t) ==
    /\ fg[t].pc = "rc_finally"
    /\ is_open' = FALSE
    /\ Raise(t, IF fg[t].wres = "raise" THEN TimeoutError ELSE SerialException)
    /\ UNCHANGED <<rx, echo, emitted, buffer, buffer_size, events, reader, history>>

ReconnectNext(t) ==
    \/ ReconnectLoop(t)
    \/ \E ok \in BOOLEAN : ReconnectOpen(t, ok)
    \/ ReconnectClear(t)
    \/ ReconnectSleep(t)
    \/ ReconnectFinally(t)

WriteNext(t) ==
    \/ WriteReadyTest(t)
    \/ WriteReadySleep(t)
    \/ WriteArmPrompt(t)
    \/ WriteArmResponse(t)
    \/ WriteSend(t)
    \/ WriteSleep(t)
    \/ WriteReturn(t)

WaitNext(t) ==
    \/ WaitCond(t)
    \/ WaitPred(t)
    \/ WaitSleep(t)

CallerNext(t) ==
    \/ \E cmd \in Cmds, flag, called, prompt \in BOOLEAN :
            Write(t, cmd, flag, called, prompt)
    \/ WriteNext(t)
    \/ WaitNext(t)
    \/ \E args \in CheckSets : CheckLog(t, args)
    \/ CheckLogExcept(t)
    \/ CheckLogFinally(t)
    \/ Close(t)
    \/ CloseFinally(t)
    \/ Pause(t)
    \/ PauseClose(t)
    \/ PauseRaise(t)

Next ==
    \/ ReaderOutput
    \/ ReaderNext
    \/ \E chunk \in DevChunks : DeviceEmit(chunk)
    \/ \E t \in Callers : CallerNext(t)

Spec == Init /\ [][Next]_vars

\* The same behaviours with every thread scheduled again and again: the
\* reader thread and each caller keep running while they have a step to take.
FairSpec ==
    /\ Spec
    /\ WF_vars(ReaderNext)
    /\ \A t \in Callers : WF_vars(CallerNext(t))

\* ------------------------------------------------------------------------
\* Two foreground threads: "main" writes and reads while "aux" pauses or
\* closes
\* ------------------------------------------------------------------------

PairInit ==
    /\ InitPort
    /\ echo = FALSE
    /\ buffer_size = SerialBufferSize

PairMain ==
    \/ \E cmd \in Cmds, called \in BOOLEAN : Write("main", cmd, FALSE, called, FALSE)
    \/ WriteNext("main")
    \/ Read("main")
    \/ FgReadNext("main")

PairAux ==
    \/ Pause("aux")
    \/ PauseClose("aux")
    \/ PauseRaise("aux")
    \/ Close("aux")
    \/ CloseFinally("aux")
    \/ WaitNext("aux")

PairNext ==
    \/ ReaderOutput
    \/ ReaderNext
    \/ PairMain
    \/ PairAux

PairSpec == PairInit /\ [][PairNext]_vars

\* ------------------------------------------------------------------------
\* The life of the port: "main" writes and reads while "aux" pauses, closes
\* and reconnects
\* ------------------------------------------------------------------------

LifeAux ==
    \/ \E retries \in 0..MaxRetries : Reconnect("aux", retries)
    \/ ReconnectNext("aux")

LifeNext ==
    \/ PairNext
    \/ LifeAux

LifeSpec == PairInit /\ [][LifeNext]_vars

\* ------------------------------------------------------------------------
\* A shell on the device: it answers "ls" with a listing and a prompt
\* ------------------------------------------------------------------------

Ls == <<"l", "s">>

Listing == <<"a", LF, "b", LF>>

\* The chunks of the answer, in the order the device sends them.
ShellReply == << <<"a", LF>>, <<"b", LF>>, PromptChunk >>

\* The device sends the next chunk of its answer to a dispatched "ls".
DeviceReply ==
    /\ ~echo
    /\ \E t \in Threads :
            fg[t].op = "write" /\ fg[t].sent /\ fg[t].cmd = Ls \o <<LF>>
    /\ emitted < Len(ShellReply)
    /\ emitted' = emitted + 1
    /\ rx' = rx \o ShellReply[emitted + 1]
    /\ UNCHANGED <<is_open, echo, buffer, buffer_size, events, reader, fg, history>>

\* The steps of a reader that is never paused or told to exit while in read.
ReaderRun ==
    \/ ReaderLoopTest
    \/ ReaderPauseTest
    \/ ReadArm
    \/ ReadReadyTest
    \/ ReadRaw
    \/ ProcessResponse
    \/ BufferGet
    \/ BufferPut
    \/ ProcessPrompt
    \/ ProcessCheck
    \/ ReadFinally
    \/ ReaderLoopSleep

ShellInit ==
    /\ InitPort
    /\ echo = FALSE
    /\ buffer_size = SerialBufferSize

\* write("ls", called=True, prompt=True) and its steps.
ShellMain ==
    \/ Write("main", Ls, FALSE, TRUE, TRUE)
    \/ WriteReadyTest("main")
    \/ WriteArmPrompt("main")
    \/ WriteArmResponse("main")
    \/ WriteSend("main")
    \/ WriteReturn("main")
    \/ WaitNext("main")

ShellNext ==
    \/ ReaderOutput
    \/ ReaderRun
    \/ DeviceReply
    \/ ShellMain

ShellSpec == ShellInit /\ [][ShellNext]_vars

\* ------------------------------------------------------------------------
\* A ThreadEvent alone: arm, accumulate, satisfy, and a thread in wait_for.
\* The flag is write_event, a ThreadEvent(bytes).
\* ------------------------------------------------------------------------

Payloads == {<<"a">>, <<"b">>}

Targets == {"set", "clear", "ready"}

ErrorTypes == {"strict", None}

FlagInit ==
    /\ InitPort
    /\ echo = FALSE
    /\ buffer_size = SerialBufferSize

\* arm: ThreadEvent.set()
FlagArm ==
    /\ write_event' = EventSet(write_event)
    /\ UNCHANGED <<device, buffer, buffer_size, read_event, pause_event, exit_event,
                   check_event, checks, prompt_event, reader, fg, history>>

\* accumulate: "event.data = chunk"
FlagAccumulate(chunk) ==
    /\ appends < MaxAppends
    /\ write_event' = EventAddData(write_event, chunk)
    /\ appends' = appends + 1
    /\ UNCHANGED <<device, buffer, buffer_size, read_event, pause_event, exit_event,
                   check_event, checks, prompt_event, reader, fg, hit, all>>

\* satisfy: ThreadEvent.clear()
FlagSatisfy ==
    /\ write_event' = EventClear(write_event)
    /\ UNCHANGED <<device, buffer, buffer_size, read_event, pause_event, exit_event,
                   check_event, checks, prompt_event, reader, fg, history>>

\* The predicate ThreadEvent.wait_for polls for each target_state.
TargetHolds(e, target) ==
    CASE target = "set" -> e.flag
      [] target = "clear" -> ~e.flag
      [] OTHER -> e.ready

\* What ThreadEvent.wait_for hands to its caller once the wait_for of
\* base_decorators has returned True ("true") or False ("false"): the method
\* drops the value and has no return statement.
ThreadEventWaitFor(outcome) == None

\* The wait has ended: an exception goes on to the caller, a value is handed
\* over as ThreadEvent.wait_for does.
FlagWaitEnd(t, outcome) ==
    fg' = [fg EXCEPT ![t].pc = "done",
                     ![t].wres = outcome,
                     ![t].exc = IF outcome = "raise" THEN TimeoutError ELSE "none",
                     ![t].val = IF outcome = "raise" THEN "none"
                                ELSE ThreadEventWaitFor(outcome)]

\* event.wait_for(target_state, timeout, interval, error_type)
FlagWaitFor(t, target, error_type) ==
    /\ CanCall(t)
    /\ fg' = [fg EXCEPT ![t] =
                [Call(t, "wait_for", "fw_cond") EXCEPT
                    !.target = target, !.error_type = error_type]]
    /\ UNCHANGED <<device, buffer, buffer_size, events, reader, history>>

\* wait_for: "while (datetime.now() - cur).total_seconds() <= timeout"
FlagWaitCond(t) ==
    /\ fg[t].pc = "fw_cond"
    /\ IF WaitForContinues(fg[t].n)
       THEN Goto(t, "fw_pred")
       ELSE FlagWaitEnd(t, WaitForTimeout(fg[t].error_type))
    /\ UNCHANGED <<device, buffer, buffer_size, events, reader, history>>

\* wait_for: "if predicate(**kwargs): return True"
FlagWaitPred(t) ==
    /\ fg[t].pc = "fw_pred"
    /\ IF TargetHolds(write_event, fg[t].target)
       THEN FlagWaitEnd(t, "true")
       ELSE Goto(t, "fw_sleep")
    /\ UNCHANGED <<device, buffer, buffer_size, events, reader, history>>

\* wait_for: "time.sleep(interval)" ends.
FlagWaitSleep(t) ==
    /\ fg[t].pc = "fw_sleep"
    /\ fg' = [fg EXCEPT ![t].pc = "fw_cond", ![t].n = @ + 1]
    /\ UNCHANGED <<device, buffer, buffer_size, events, reader, history>>

FlagNext ==
    \/ FlagArm
    \/ \E chunk \in Payloads : FlagAccumulate(chunk)
    \/ FlagSatisfy
    \/ \E target \in Targets, error_type \in ErrorTypes :
            FlagWaitFor("main", target, error_type)
    \/ FlagWaitCond("main")
    \/ FlagWaitPred("main")
    \/ FlagWaitSleep("main")

FlagSpec == FlagInit /\ [][FlagNext]_vars

\* ------------------------------------------------------------------------
\* A PatternWatch with two patterns or none: check_log beside the reader
\* ------------------------------------------------------------------------

ERROR == <<"E", "R">>

FAIL == <<"F", "L">>

WatchSets == {{ERROR, FAIL}, {}}

WatchChunks == {FAIL, ERROR, <<"o", "k">>}

WatchInit ==
    /\ InitPort
    /\ echo = FALSE
    /\ buffer_size = SerialBufferSize

WatchNext ==
    \/ ReaderOutput
    \/ ReaderRun
    \/ \E chunk \in WatchChunks : DeviceEmit(chunk)
    \/ \E args \in WatchSets : CheckLog("main", args)
    \/ WaitNext("main")
    \/ CheckLogExcept("main")
    \/ CheckLogFinally("main")

WatchSpec == WatchInit /\ [][WatchNext]_vars

\* ------------------------------------------------------------------------
\* A device that answers every command with one prompt, sooner or later
\* ------------------------------------------------------------------------

\* Number of commands thread t has dispatched: its calls, less the one in
\* progress that has not reached the device.
Dispatched(t) ==
    fg[t].calls - (IF fg[t].pc \notin {"idle", "done"} /\ ~fg[t].sent THEN 1 ELSE 0)

\* The device sends the prompt that answers the oldest command not answered
\* yet: the k-th prompt it sends answers the k-th command.
DevicePrompt ==
    /\ ~echo
    /\ emitted < Dispatched("main")
    /\ emitted' = emitted + 1
    /\ rx' = rx \o PromptChunk
    /\ UNCHANGED <<is_open, echo, buffer, buffer_size, events, reader, fg, history>>

PromptInit ==
    /\ InitPort
    /\ echo = FALSE
    /\ buffer_size = SerialBufferSize

\* write(cmd, prompt=True) and its steps.
PromptMain ==
    \/ \E cmd \in Cmds : Write("main", cmd, FALSE, FALSE, TRUE)
    \/ WriteReadyTest("main")
    \/ WriteArmPrompt("main")
    \/ WriteArmResponse("main")
    \/ WriteSend("main")
    \/ WriteReturn("main")
    \/ WaitNext("main")

PromptNext ==
    \/ ReaderOutput
    \/ ReaderRun
    \/ DevicePrompt
    \/ PromptMain

PromptSpec == PromptInit /\ [][PromptNext]_vars

\* ------------------------------------------------------------------------
\* The RollingBuffer alone: a sequence of appends through the buffer setter
\* ------------------------------------------------------------------------

BufTexts == {<<"a">>, <<"X", "Y", "Z">>,
             <<"a", "b", "c", "d", "e", "f", "g", "h">>}

BufInit ==
    /\ InitPort
    /\ echo = FALSE
    /\ buffer_size \in 1..MaxCapacity

\* _update_buffer(text): "self.buffer = text"
UpdateBuffer(text) ==
    /\ appends < MaxAppends
    /\ buffer' = BufferSetter(buffer, text, buffer_size)
    /\ all' = all \o text
    /\ appends' = appends + 1
    /\ UNCHANGED <<device, buffer_size, events, reader, fg, hit>>

BufNext == \E text \in BufTexts : UpdateBuffer(text)

BufSpec == BufInit /\ [][BufNext]_vars

\* ------------------------------------------------------------------------
\* Claims
\* ------------------------------------------------------------------------

\* write(called=True) of caller t has returned a value.
ResponseReturned(t) ==
    /\ fg[t].op = "write"
    /\ fg[t].called
    /\ fg[t].pc = "done"
    /\ fg[t].exc = "none"

\* C1: against a device that echoes exactly what was sent, a
\* write(expect_response) that armed the response flag when every earlier
\* byte had been read, and that returns once the reader has taken in its
\* echo, returns exactly the bytes this call sent: no bytes read before it
\* armed the flag are in its result.
C1_EchoReturnsSentBytes ==
    [][\A t \in Callers :
          (/\ echo
           /\ fg[t].pc = "w_return"
           /\ fg[t].called
           /\ fg[t].clean
           /\ Drained
           /\ ResponseReturned(t)')
          => fg'[t].ret = fg[t].cmd]_vars

\* C2: after every append through the buffer setter, also of a text longer
\* than the capacity, the buffer is no longer than its capacity.
C2_LengthWithinCapacity == Len(buffer) <= buffer_size

\* C3: after every sequence of appends the buffer holds the last buffer_size
\* characters of the concatenation of the appended texts.
C3_LastCapacityCharacters == buffer = LastN(all, buffer_size)

\* The prompt wait of write(expect_prompt) of caller t has timed out and the
\* call has ended.
PromptWaitTimedOut(t) ==
    /\ fg[t].op = "write"
    /\ fg[t].prompt
    /\ fg[t].pc = "done"
    /\ fg[t].wres \in {"false", "raise"}

\* C4 as stated: a write(expect_prompt) whose prompt wait times out fails
\* with a Timeout error.
C4_PromptTimeoutRaises ==
    \A t \in Callers : PromptWaitTimedOut(t) => fg[t].exc = TimeoutError

\* C4 as amended: a write(expect_prompt) whose prompt wait times out raises
\* nothing; it returns, and returns empty bytes unless a response is expected.
C4_PromptTimeoutReturns ==
    \A t \in Callers :
        PromptWaitTimedOut(t) =>
            /\ fg[t].exc = "none"
            /\ ~fg[t].called => fg[t].ret = << >>

C4_Witness ==
    \E t \in Callers :
        /\ PromptWaitTimedOut(t)
        /\ fg[t].exc = "none"
        /\ fg[t].sent
        /\ ReaderAlive

\* C5: when write has dispatched its command, it has armed the prompt flag
\* (if a prompt is expected) and the response flag (if a response is
\* expected) before.
C5_ArmedBeforeDispatch ==
    \A t \in Callers :
        (fg[t].op = "write" /\ fg[t].sent) =>
            /\ fg[t].prompt => "prompt" \in fg[t].armed
            /\ fg[t].called => "response" \in fg[t].armed /\ write_event.flag

C5_Witness ==
    \E t \in Callers :
        /\ fg[t].op = "write"
        /\ fg[t].sent
        /\ fg[t].prompt
        /\ fg[t].called
        /\ fg[t].armed = {"prompt", "response"}
        /\ rpc = "proc_prompt"

\* check_log of caller t has returned.
CheckLogReturned(t) == fg[t].op = "check_log" /\ fg[t].pc = "done"

\* C6: check_log returns false when no chunk appended between its arming of
\* the watch and its deadline holds the pattern, whatever the buffer held
\* before.
C6_NoAppendNoMatch ==
    \A t \in Callers : (CheckLogReturned(t) /\ ~hit) => fg[t].ret = FALSE

\* C7: check_log returns true when the reader has appended a chunk holding the
\* pattern while check_log was waiting, before its deadline.
C7_AppendThenMatch ==
    \A t \in Callers : (CheckLogReturned(t) /\ hit) => fg[t].ret = TRUE

\* C8: once the exit flag is set, a running reader loop eventually exits.
C8_ReaderExits == (exit_event.flag /\ ReaderAlive) ~> ~ReaderAlive

\* close() of caller t has finished, by a return or by raising.
CloseFinished(t) == fg[t].op = "close" /\ fg[t].pc = "done"

C10_CloseIdempotent ==
    \A t \in Callers :
        (CloseFinished(t) /\ fg[t].closes >= 2) => fg[t].exc = "none" /\ ~is_open

\* C11: under every interleaving of write() with pause() or close(), write
\* dispatches its bytes to the channel only while neither the pause flag nor
\* the exit flag is set.
C11_NoDispatchWhileBlocked ==
    [][\A t \in Threads :
          (~fg[t].sent /\ fg'[t].sent) => ~WaitUntilReadyBlocked]_vars

\* C12: the first write("ls", expect_response, expect_prompt) on a port, whose
\* prompt wait ended because the reader read the listing and then, in a chunk
\* of its own, the prompt (the reader is still in that read), returns exactly
\* the listing: the bytes read before the prompt.
C12_ListingReturned ==
    \A t \in Threads :
        (/\ ResponseReturned(t)
         /\ fg[t].cmd = Ls \o <<LF>>
         /\ fg[t].prompt
         /\ fg[t].wres = "true"
         /\ fg[t].calls = 1
         /\ r_data = PromptChunk)
        => fg[t].ret = Listing

\* C13: under every sequence of arm, accumulate and satisfy on a fresh flag,
\* the payload changes only while the flag is set, or by the arm that sets
\* it: an accumulate on a flag that was never armed, or that was satisfied,
\* leaves the payload as it was.
C13_PayloadChangesOnlyWhileSet ==
    [][(\/ write_event'.has_data # write_event.has_data
        \/ write_event'.data # write_event.data)
       => (write_event.flag \/ write_event'.flag)]_vars

\* reconnect of thread t has ended.
ReconnectEnded(t) == fg[t].op = "reconnect" /\ fg[t].pc = "done"

\* C14: reconnect makes at most `retries` attempts to open the channel.  After
\* the first attempt that succeeds it has cleared the pause flag and returns.
\* When every attempt has failed (also with retries = 0) it has made `retries`
\* attempts, the channel is closed, the pause flag is as it was at the call
\* and the call fails with a connection error (SerialException).
C14_ReconnectOutcome ==
    \A t \in Threads :
        ReconnectEnded(t) =>
            /\ fg[t].tries <= fg[t].retries
            /\ IF fg[t].opened
               THEN fg[t].exc = "none" /\ ~pause_event.flag
               ELSE /\ fg[t].tries = fg[t].retries
                    /\ ~is_open
                    /\ pause_event.flag = fg[t].paused
                    /\ fg[t].exc = SerialException

\* ThreadEvent.wait_for of thread t has ended.
WaitForEnded(t) == fg[t].op = "wait_for" /\ fg[t].pc = "done"

\* C15: wait_for on a flag reports the outcome of the wait: a true value when
\* the target state was observed, a false one on a lenient timeout, and a
\* TimeoutError on a strict timeout.
C15_WaitReportsOutcome ==
    \A t \in Threads :
        WaitForEnded(t) =>
            /\ fg[t].wres = "true" => fg[t].val = "True"
            /\ fg[t].wres = "false" => fg[t].val \in {"False", None}
            /\ fg[t].wres = "raise" => fg[t].exc = TimeoutError

C17_ResetStands ==
    [][\A t \in Threads :
          /\ (fg[t].pc = "c_finally" /\ CheckLogReturned(t)')
                => (~check_event'.flag /\ buffer' = << >>)
          /\ (CheckLogReturned(t) /\ buffer = << >> /\ rpc = "buffer_put" /\ rpc' # rpc)
                => buffer' = BufferSetter(<< >>, byte2str(r_data), buffer_size)]_vars

\* The reader thread is in read().
ReaderInRead ==
    rpc \in {"ready_test", "ready_sleep", "raw_read", "proc_response", "buffer_get",
             "buffer_put", "proc_prompt", "proc_check", "read_finally"}

\* C18: whenever a read() exits, by its return or by an exception of the raw
\* read, in the reader thread or in a foreground thread, the read flag is
\* clear.
C18_ReadLeavesFlagClear ==
    [][/\ (ReaderInRead /\ ~ReaderInRead') => ~read_event'.flag
       /\ \A t \in Threads :
             (fg[t].op = "read" /\ fg[t].pc # "done" /\ fg'[t].pc = "done")
                => ~read_event'.flag]_vars

C18_Witness ==
    /\ rpc = "dead"
    /\ ~is_open
    /\ ~read_event.flag
    /\ \E t \in Threads : fg[t].op = "pause" /\ fg[t].pc = "done"

\* C19: whenever a read(), of the reader or of a foreground thread, is between
\* arming the read flag and the end of its raw read, the read flag is set, so
\* that pause() and close() see it.
C19_InFlightReadSeen ==
    /\ rpc \in {"ready_test", "ready_sleep", "raw_read"} => read_event.flag
    /\ \A t \in Threads :
          (fg[t].op = "read" /\ fg[t].pc \in {"r_ready_test", "r_ready_sleep", "r_raw"})
            => read_event.flag

\* C20: a pause() that is the first call on a port, whatever the reader loop
\* does meanwhile, ends without raising and with the channel closed.
C20_PauseCloses ==
    \A t \in Threads :
        (fg[t].op = "pause" /\ fg[t].pc = "done" /\ fg[t].calls = 1)
            => fg[t].exc = "none" /\ ~is_open

\* C21: the prompt wait of a write(expect_prompt) ends before its timeout only
\* when the device has sent the prompt that answers this call's command: the
\* prompt of an earlier command, sent late, does not end it.
C21_OwnPromptEndsWait ==
    \A t \in Threads :
        (fg[t].op = "write" /\ fg[t].prompt /\ fg[t].wres = "true")
            => emitted >= fg[t].calls

\* C22: once the exit flag is set, no step clears it, not even a reconnect
\* that succeeds; from then on a write or a read that is in its
\* wait-until-ready step stays there, and a reader thread that is not in an
\* iteration of its loop (one started by reader_output afterwards) begins no
\* read.
C22_ExitFlagStays ==
    [][exit_event.flag =>
          /\ exit_event'.flag
          /\ rpc \in {"none", "done", "dead", "loop"}
                => rpc' \in {"none", "done", "dead", "loop"}
          /\ \A t \in Threads :
                /\ fg[t].pc \in {"w_ready_test", "w_ready_sleep"}
                      => fg'[t].pc \in {"w_ready_test", "w_ready_sleep"}
                /\ fg[t].pc \in {"r_ready_test", "r_ready_sleep"}
                      => fg'[t].pc \in {"r_ready_test", "r_ready_sleep"}]_vars

C22_Witness ==
    /\ exit_event.flag
    /\ ~pause_event.flag
    /\ is_open
    /\ \E t \in Threads :
          fg[t].op = "reconnect" /\ fg[t].pc = "done" /\ fg[t].opened
    /\ \E t \in Threads : fg[t].op = "write" /\ fg[t].pc = "w_ready_sleep"
    /\ rpc = "done"

=============================================================================
